---------------------------- MODULE Spec2Model ----------------------------
(***************************************************************************)
(* A model of src/src/rarc.rs: the RARC archive decoder (RARC::read), the  *)
(* tree linker (sortparents), the path resolver and extractor (getchildren,*)
(* findfolder, getroot, extract) and the filesystem importer (createdir,   *)
(* createfile, createfolder, importnote, importfromfolder).                *)
(*                                                                         *)
(* Conventions.  Table positions are the code's 0-based numbers; a TLA+    *)
(* sequence holds position p at index p + 1.  A raw pointer into the       *)
(* folder table is [gen, idx]: the allocation of the Vec it was taken from *)
(* and the position in it.  A pointer whose gen is not the table's current *)
(* allocation dangles.  Names are sequences of numbers: bytes for decoded  *)
(* names, the path of listing positions from the import root for imported  *)
(* items, <<46>> for "." and <<46, 46>> for "..".  A u32 is held as its two *)
(* 16-bit halves [hi, lo], TLC's integers being 32-bit signed; a u16 and a *)
(* u8 are integers.                                                        *)
(***************************************************************************)
EXTENDS Integers, Sequences, FiniteSets, TLC

VARIABLES
    pc,          \* position of the program: which operation runs next
    panic,       \* why the program panicked ("none" while it has not)
    folders,     \* RARC.folders : Vec<FileNode>
    dirs,        \* RARC.dirs : Vec<DirNode>
    nextidx,     \* RARC.nextidx : u16
    sync,        \* RARC.sync : bool
    endian,      \* RARC.endian
    header,      \* RARC.header
    dataheader,  \* RARC.dataheader
    buf,         \* the byte buffer handed to RARC::read
    native,      \* the platform's byte order (Endian::NATIVE)
    overflowChecks, \* whether the build panics on integer overflow
    foldersCap,  \* capacity of the folders Vec
    foldersGen,  \* current allocation of the folders Vec
    freed,       \* what each freed allocation of folders held, by gen + 1
    attrArg,     \* the attr argument of importfromfolder
    stack,       \* the active importnote calls, innermost last
    fs,          \* the directory listings read_dir has returned, by path
    assigned,    \* the nodeidx values createfile has assigned, in order
    xFolder,     \* extract: position of the folder being extracted
    children,    \* extract: getchildren(folder), as positions in dirs
    gDirs,       \* getroot: the local dirs, as positions in dirs
    gFnode,      \* getroot: the local fnode, a position in dirs
    gResult,     \* getroot: the local result, folder positions
    written      \* extract: the files written, <<path, name>>

vars == <<pc, panic, folders, dirs, nextidx, sync, endian, header, dataheader,
          buf, native, overflowChecks, foldersCap, foldersGen, freed, attrArg,
          stack, fs, assigned, xFolder, children, gDirs, gFnode, gResult, written>>

---------------------------------------------------------------------------
(* Bounds of the model *)

MaxListing == 4
MaxItems == 5
MaxDepth == 2
MaxWalk == 3
MaxNodes == 3
MaxEntries == 2
MaxLinkFolders == 2
MaxLinkDirs == 2

---------------------------------------------------------------------------
(* Program constants *)

FILE == 1
FOLDER == 2
U16MOD == 65536
MINCAP == 4

\* the u32 of a number below 2^31
W(n) == [hi |-> n \div U16MOD, lo |-> n % U16MOD]

\* u32::MAX
U32MAX == [hi |-> U16MOD - 1, lo |-> U16MOD - 1]

\* a + b on u32: the wrapped sum, and whether it overflowed
Add32(a, b) ==
    LET lo == a.lo + b.lo
        hi == a.hi + b.hi + (lo \div U16MOD)
    IN  [ovf |-> hi >= U16MOD, val |-> [hi |-> hi % U16MOD, lo |-> lo % U16MOD]]

Dot == <<46>>
DotDot == <<46, 46>>

NoPtr == [gen |-> -1, idx |-> -1]

Ptr(g, i) == [gen |-> g, idx |-> i]

\* FileAttr::contains for a one-bit flag
Contains(attr, flag) == (attr \div flag) % 2 = 1

\* FileNode::default()
DefaultFileNode ==
    [name |-> <<>>, isroot |-> FALSE, shortname |-> <<0, 0, 0, 0>>,
     nameoff |-> W(0), hash |-> 0, filecount |-> 0,
     firstfileoff |-> W(0), dir |-> -1]

\* DirNode::default()
DefaultDirNode ==
    [name |-> <<>>, attr |-> 0, nodeidx |-> 0, hash |-> 0,
     attrandnameoff |-> W(0), data |-> W(0), datasize |-> W(0),
     nameoff |-> 0,
     bytes |-> <<>>, folder |-> NoPtr, parent |-> NoPtr]

\* Header::default() and DataHeader::default()
DefaultHeader ==
    [filesize |-> W(0), headersize |-> W(0), filedataoff |-> W(0),
     filedatasize |-> W(0), mramsize |-> W(0), aramsize |-> W(0),
     dvdsize |-> W(0)]

DefaultDataHeader ==
    [dirnodecount |-> W(0), dirnodeoff |-> W(0), filenodecount |-> W(0),
     filenodeoff |-> W(0), stringtablesize |-> W(0), stringtableoff |-> W(0)]

EmptyBuf == [size |-> 0, bytes |-> <<>>]

Reverse(s) == [i \in 1..Len(s) |-> s[Len(s) + 1 - i]]

Last(s) == s[Len(s)]

---------------------------------------------------------------------------
(* Path resolver *)

\* lines 202 and 211: whether firstfileoff + filecount overflows a u32
RangeOverflows(node) == Add32(node.firstfileoff, W(node.filecount)).ovf

\* RARC::getchildren: the positions of dirs inside the folder's range.  A
\* range that starts at 2^16 or more, or that wrapped, holds no position of
\* a table of the model.
GetChildren(ds, node) ==
    LET lo == node.firstfileoff.lo
        hi == lo + node.filecount
        n  == IF hi < Len(ds) THEN hi ELSE Len(ds)
    IN  IF node.firstfileoff.hi > 0 \/ lo >= n THEN <<>>
        ELSE [i \in 1..(n - lo) |-> lo + i - 1]


\* RARC::findfolder on a pointer that does not dangle
PtrValid(p) == p # NoPtr /\ p.gen = foldersGen

---------------------------------------------------------------------------
(* Filesystem importer *)

Kinds == {"file", "dir"}

Listings == UNION {[1..n -> Kinds] : n \in 0..MaxListing}

NumDirs(l) == Cardinality({i \in 1..Len(l) : l[i] = "dir"})

\* the items listed so far: each has one entry, named by its path
NumItems(ds) ==
    Cardinality({i \in 1..Len(ds) : ds[i].name \notin {Dot, DotDot}})

\* the attr arguments importfromfolder is called with
Attrs == {FILE, FILE + FOLDER}

\* to_ascii_uppercase of one byte
Upper(b) == IF b >= 97 /\ b <= 122 THEN b - 32 ELSE b

\* createfolder, lines 273-282: the first 4 bytes of the name, padded with
\* spaces, in upper case
ShortName(name) ==
    [i \in 1..4 |-> IF i <= Len(name) THEN Upper(name[i]) ELSE 32]

\* Vec::push on folders: a full Vec grows to max(2 * cap, 4) elements, and
\* the reallocation moves the elements (mv) or extends them in place
PushFolder(a, node, mv) ==
    IF Len(a.folders) < a.cap
    THEN [a EXCEPT !.folders = Append(@, node)]
    ELSE [a EXCEPT !.folders = Append(@, node),
                   !.cap = IF 2 * a.cap > MINCAP THEN 2 * a.cap ELSE MINCAP,
                   !.gen = IF mv /\ a.cap > 0 THEN a.gen + 1 ELSE a.gen,
                   !.freed = IF mv /\ a.cap > 0 THEN Append(@, a.folders)
                             ELSE @]

\* RARC::createdir
CreateDir(a, name, attr) ==
    [a EXCEPT !.dirs = Append(@, [DefaultDirNode EXCEPT !.name = name,
                                                        !.attr = attr])]

\* RARC::createfile; nextidx += 1 on a u16 panics in a build with overflow
\* checks and wraps in one without
CreateFile(a, name, attr) ==
    LET b   == CreateDir(a, name, attr)
        len == Len(b.dirs)
        c   == [b EXCEPT !.dirs[len].nodeidx = b.nextidx,
                         !.assigned = Append(@, b.nextidx)]
    IN  IF ~sync THEN b
        ELSE IF b.nextidx + 1 < U16MOD THEN [c EXCEPT !.nextidx = @ + 1]
        ELSE IF overflowChecks THEN [c EXCEPT !.panic = "overflow"]
        ELSE [c EXCEPT !.nextidx = 0]

\* RARC::createfolder
CreateFolder(a, name, parent, mv) ==
    LET node == [DefaultFileNode EXCEPT !.name = name,
                                        !.shortname = ShortName(name)]
        len  == Len(a.folders) + 1
        dlen == Len(a.dirs) + 1
        c    == CreateDir(PushFolder(a, node, mv), name, FOLDER)
    IN  [c EXCEPT !.folders[len].dir = dlen - 1,
                  !.dirs[dlen].folder = Ptr(c.gen, len - 1),
                  !.dirs[dlen].parent = parent]

\* importnote, lines 293-294 and 332-333: the position of the folder the
\* pointer refers to, 0 when no element of folders has that address
ParPos(fds, gen, parent) ==
    IF parent.gen = gen /\ parent.idx >= 0 /\ parent.idx < Len(fds)
    THEN parent.idx ELSE 0

\* the bytes std::fs::read returns for the file at a path
Content(path) == path

\* importnote, lines 300-316: the first pass over the listing, from item i on
RECURSIVE ScanItems(_, _, _, _, _, _, _)
ScanItems(a, iter, i, path, parent, attr, mv) ==
    IF i > Len(iter) \/ a.panic # "none" THEN a
    ELSE LET name == Append(path, i)
             b == IF iter[i] = "dir"
                  THEN LET c == CreateFolder(a, name, parent, mv)
                       IN  [c EXCEPT !.dirpos = Append(@, Len(c.folders) - 1)]
                  ELSE LET c == CreateFile(a, name, attr)
                           pos == Len(c.dirs)
                       IN  IF c.panic # "none" THEN c
                           ELSE [c EXCEPT
                                   !.dirs[pos].bytes = Content(name),
                                   !.dirs[pos].datasize = W(Len(Content(name)))]
         IN  IF b.panic # "none" THEN b
             ELSE ScanItems([b EXCEPT !.nodelen = @ + 1], iter, i + 1, path,
                            parent, attr, mv)

\* the archive as the importer's operators take and return it
Archive ==
    [folders |-> folders, dirs |-> dirs, nextidx |-> nextidx,
     cap |-> foldersCap, gen |-> foldersGen, freed |-> freed,
     assigned |-> assigned,
     panic |-> "none", dirpos |-> <<>>, nodelen |-> 0]

Frame(name, parent) ==
    [name |-> name, parent |-> parent, parpos |-> 0, iter |-> <<>>,
     dirpos |-> <<>>, k |-> 0, scanned |-> FALSE]

Top == stack[Len(stack)]

\* whether read_dir succeeds on the path: the import root is a directory,
\* any other path is what its parent's listing says
IsDir(path) ==
    \/ path = <<>>
    \/ LET up == SubSeq(path, 1, Len(path) - 1)
       IN  up \in DOMAIN fs /\ fs[up][path[Len(path)]] = "dir"

\* importnote, lines 322-338: the "." and ".." entries of sub-folder fpos
DotPair(fds, gen, fpos, parent) ==
    LET fnode  == Ptr(gen, fpos)
        dot    == [DefaultDirNode EXCEPT !.name = Dot, !.attr = FOLDER,
                                         !.folder = fnode, !.parent = fnode,
                                         !.data = W(fpos)]
        parpos == ParPos(fds, gen, parent)
    IN  <<dot,
          [dot EXCEPT !.name = DotDot, !.parent = parent,
                      !.data = IF parpos = 0 THEN U32MAX ELSE W(parpos)]>>

\* importnote, lines 348-370: the pair of a folder without sub-directories
OwnPair(parpos, parent) ==
    LET dot == [DefaultDirNode EXCEPT !.name = Dot, !.attr = FOLDER,
                                      !.folder = parent, !.parent = parent,
                                      !.data = IF parpos = 0 THEN U32MAX
                                               ELSE W(parpos)]
    IN  <<dot, [dot EXCEPT !.name = DotDot]>>


\* RARC::importfromfolder up to its call of importnote
ImportFromFolder ==
    /\ pc = "idle"
    /\ \E attr \in Attrs :
         LET root == [DefaultFileNode EXCEPT !.name = <<>>, !.isroot = TRUE,
                                            !.shortname = <<82, 79, 79, 84>>]
             a == IF Len(folders) = 0 THEN PushFolder(Archive, root, FALSE)
                  ELSE Archive
         IN  /\ folders' = a.folders
             /\ foldersCap' = a.cap
             /\ foldersGen' = a.gen
             /\ freed' = a.freed
             /\ attrArg' = attr
             /\ stack' = <<Frame(<<>>, Ptr(a.gen, 0))>>
             /\ pc' = "import"
    /\ UNCHANGED <<panic, dirs, nextidx, sync, endian, header, dataheader, buf,
                   native, overflowChecks, fs, assigned, xFolder, children,
                   gDirs, gFnode, gResult, written>>

\* importnote, lines 293-317: the start of a call, up to the second pass.
\* read_dir's answer is the environment's: any listing within the bounds.
ImportNoteScan ==
    /\ pc = "import"
    /\ ~Top.scanned
    /\ LET f == Top
           n == Len(stack)
           parpos == ParPos(folders, foldersGen, f.parent)
           fds == [folders EXCEPT ![parpos + 1].firstfileoff = W(parpos)]
       IN  IF ~IsDir(f.name)
           THEN /\ folders' = fds
                /\ pc' = "panic"
                /\ panic' = "read_dir"
                /\ UNCHANGED <<dirs, nextidx, foldersCap, foldersGen, freed,
                               stack, fs, assigned>>
           ELSE \E iter \in Listings, mv \in BOOLEAN :
                  /\ NumItems(dirs) + Len(iter) <= MaxItems
                  /\ Len(f.name) >= MaxDepth => NumDirs(iter) = 0
                  /\ LET a == ScanItems([Archive EXCEPT !.folders = fds],
                                        iter, 1, f.name, f.parent, attrArg,
                                        mv)
                     IN  /\ dirs' = a.dirs
                         /\ nextidx' = a.nextidx
                         /\ assigned' = a.assigned
                         /\ foldersCap' = a.cap
                         /\ foldersGen' = a.gen
                         /\ freed' = a.freed
                         /\ fs' = [q \in DOMAIN fs \cup {f.name} |->
                                     IF q = f.name THEN iter ELSE fs[q]]
                         /\ IF a.panic # "none"
                            THEN /\ folders' = a.folders
                                 /\ pc' = "panic"
                                 /\ panic' = a.panic
                                 /\ UNCHANGED stack
                            ELSE /\ folders' =
                                      [a.folders EXCEPT ![parpos + 1].filecount
                                                           = a.nodelen + 2]
                                 /\ stack' =
                                      [stack EXCEPT ![n] =
                                         [f EXCEPT !.parpos = parpos,
                                                   !.iter = iter,
                                                   !.dirpos = a.dirpos,
                                                   !.scanned = TRUE]]
                                 /\ UNCHANGED <<pc, panic>>
    /\ UNCHANGED <<sync, endian, header, dataheader, buf, native,
                   overflowChecks, attrArg, xFolder, children, gDirs, gFnode,
                   gResult, written>>

\* importnote, lines 318-347: one turn of the second pass, up to the
\* recursive call
ImportNoteSub ==
    /\ pc = "import"
    /\ Top.scanned
    /\ Top.k < Len(Top.dirpos)
    /\ LET f == Top
           n == Len(stack)
           fpos == f.dirpos[f.k + 1]
       IN  /\ dirs' = dirs \o DotPair(folders, foldersGen, fpos, f.parent)
           /\ IF fpos - 1 >= Len(f.iter)
              THEN /\ pc' = "panic"
                   /\ panic' = "index"
                   /\ UNCHANGED stack
              ELSE /\ stack' = Append([stack EXCEPT ![n].k = f.k + 1],
                                      Frame(Append(f.name, fpos),
                                            Ptr(foldersGen, fpos)))
                   /\ UNCHANGED <<pc, panic>>
    /\ UNCHANGED <<folders, nextidx, sync, endian, header, dataheader, buf,
                   native, overflowChecks, foldersCap, foldersGen, freed,
                   attrArg, fs, assigned, xFolder, children, gDirs, gFnode,
                   gResult, written>>

\* importnote, lines 348-371: the end of a call
ImportNoteReturn ==
    /\ pc = "import"
    /\ Top.scanned
    /\ Top.k = Len(Top.dirpos)
    /\ dirs' = IF Len(Top.dirpos) = 0
               THEN dirs \o OwnPair(Top.parpos, Top.parent)
               ELSE dirs
    /\ stack' = SubSeq(stack, 1, Len(stack) - 1)
    /\ pc' = IF Len(stack) = 1 THEN "imported" ELSE "import"
    /\ UNCHANGED <<panic, folders, nextidx, sync, endian, header, dataheader,
                   buf, native, overflowChecks, foldersCap, foldersGen, freed,
                   attrArg, fs, assigned, xFolder, children, gDirs, gFnode,
                   gResult, written>>

---------------------------------------------------------------------------
(* Extractor *)

ImportVarsUnchanged ==
    UNCHANGED <<folders, dirs, nextidx, sync, endian, header, dataheader,
                buf, native, overflowChecks, foldersCap, foldersGen, freed,
                attrArg, stack, fs, assigned>>

\* what dereferencing the folder pointer of an entry can yield: the folder
\* it refers to; for a dangling pointer the bytes of the freed allocation,
\* or any folder should the memory have been reused
Referents(p) ==
    IF PtrValid(p) THEN {folders[p.idx + 1]}
    ELSE {freed[p.gen + 1][p.idx + 1]} \cup {folders[i] : i \in 1..Len(folders)}

\* extract, lines 242-244, and getroot, lines 224-226
GetrootStart ==
    /\ pc \in {"imported", "extract"}
    /\ xFolder < Len(folders)
    /\ LET ch == GetChildren(dirs, folders[xFolder + 1])
       IN  /\ children' = ch
           /\ gDirs' = ch
           /\ gResult' = <<>>
           /\ IF Len(ch) < 2
              THEN /\ pc' = "panic"
                   /\ panic' = "getroot"
                   /\ UNCHANGED gFnode
              ELSE /\ gFnode' = ch[Len(ch) - 1]
                   /\ pc' = "walk"
                   /\ UNCHANGED panic
    /\ UNCHANGED <<xFolder, written>>
    /\ ImportVarsUnchanged

\* getroot, lines 228-236: the loop body on the folder the pointer yields
Visit(folder) ==
    /\ gResult' = Append(gResult, folder)
    /\ IF folder.isroot
       THEN /\ pc' = "walked"
            /\ UNCHANGED <<gDirs, gFnode, panic>>
       ELSE LET ch == GetChildren(dirs, folder)
            IN  /\ gDirs' = ch
                /\ IF Len(ch) = 0
                   THEN /\ pc' = "panic"
                        /\ panic' = "getroot"
                        /\ UNCHANGED gFnode
                   ELSE /\ gFnode' = Last(ch)
                        /\ UNCHANGED <<pc, panic>>

\* getroot, lines 227-237: one turn of the loop
GetrootStep ==
    /\ pc = "walk"
    /\ Len(gResult) < MaxWalk
    /\ LET p == dirs[gFnode + 1].folder
       IN  IF p = NoPtr
           THEN /\ pc' = "walked"
                /\ UNCHANGED <<gDirs, gFnode, gResult, panic>>
           ELSE \E folder \in Referents(p) : Visit(folder)
    /\ UNCHANGED <<xFolder, children, written>>
    /\ ImportVarsUnchanged

\* getroot's result: line 238
Tree == Reverse(gResult)

\* extract, lines 245-253, for the folder getroot has walked from
ExtractWrite ==
    /\ pc = "walked"
    /\ IF Len(Tree) = 0
       THEN /\ pc' = "panic"
            /\ panic' = "tree"
            /\ UNCHANGED <<xFolder, written>>
       ELSE /\ written' = written \cup
                 {<<[i \in 1..Len(Tree) |-> Tree[i].name], dirs[c + 1].name>> :
                    c \in {children[j] : j \in 1..Len(children)}
                          \cap {d \in 0..(Len(dirs) - 1) :
                                  Contains(dirs[d + 1].attr, FILE)}}
            /\ xFolder' = xFolder + 1
            /\ pc' = IF xFolder + 1 = Len(folders) THEN "extracted"
                     ELSE "extract"
            /\ UNCHANGED panic
    /\ UNCHANGED <<children, gDirs, gFnode, gResult>>
    /\ ImportVarsUnchanged

---------------------------------------------------------------------------
(* The importer and the extractor on an archive that starts empty *)

\* the values of nextidx an archive without folders starts an import with:
\* 0 from RARC::default(), any u16 from a decoded header
StartIdx == {0, U16MOD - 2, U16MOD - 1}

InitImport ==
    /\ pc = "idle"
    /\ panic = "none"
    /\ folders = <<>>
    /\ dirs = <<>>
    /\ nextidx \in StartIdx
    /\ sync \in BOOLEAN
    /\ ~sync => nextidx = 0
    /\ native = "little"
    /\ endian = native
    /\ header = DefaultHeader
    /\ dataheader = DefaultDataHeader
    /\ buf = EmptyBuf
    /\ overflowChecks \in BOOLEAN
    /\ foldersCap = 0
    /\ foldersGen = 0
    /\ freed = <<>>
    /\ attrArg = 0
    /\ stack = <<>>
    /\ fs = <<>>
    /\ assigned = <<>>
    /\ xFolder = 0
    /\ children = <<>>
    /\ gDirs = <<>>
    /\ gFnode = 0
    /\ gResult = <<>>
    /\ written = {}

NextImport ==
    \/ ImportFromFolder
    \/ ImportNoteScan
    \/ ImportNoteSub
    \/ ImportNoteReturn
    \/ GetrootStart
    \/ GetrootStep
    \/ ExtractWrite

SpecImport == InitImport /\ [][NextImport]_vars

---------------------------------------------------------------------------
(* Primitive reader *)

\* a position at or past 2^30 is past the end of every buffer of the model
PastEnd == 16384 * U16MOD

\* a u32 as a u64 cursor position
ToPos(w) == IF w.hi >= 16384 THEN PastEnd ELSE w.hi * U16MOD + w.lo

\* the byte at an offset of the buffer; the offsets bytes does not hold are
\* zero bytes
ByteAt(b, o) == IF o \in DOMAIN b.bytes THEN b.bytes[o] ELSE 0

\* whether n bytes can be read at position p
Fits(b, p, n) == p + n <= b.size

\* read::<u16> and read::<u32>: read_be or read_le
ReadU16(e, b, p) ==
    IF e = "big" THEN ByteAt(b, p) * 256 + ByteAt(b, p + 1)
    ELSE ByteAt(b, p + 1) * 256 + ByteAt(b, p)

ReadU32(e, b, p) ==
    IF e = "big" THEN [hi |-> ReadU16(e, b, p), lo |-> ReadU16(e, b, p + 2)]
    ELSE [hi |-> ReadU16(e, b, p + 2), lo |-> ReadU16(e, b, p)]

\* seektask::readntstringat: the bytes from p up to the next zero byte or
\* the end of the buffer; the cursor is put back where it was
RECURSIVE ReadNTString(_, _)
ReadNTString(b, p) ==
    IF p >= b.size \/ ByteAt(b, p) = 0 THEN <<>>
    ELSE <<ByteAt(b, p)>> \o ReadNTString(b, p + 1)

\* a + b + c on u32, as at lines 154, 168 and 171
Sum3(a, b, c) ==
    LET x == Add32(a, b)
        y == Add32(x.val, c)
    IN  [ovf |-> x.ovf \/ y.ovf, val |-> y.val]

---------------------------------------------------------------------------
(* Binary decoder *)

RARCMagic == <<82, 65, 82, 67>>
CRARMagic == <<67, 82, 65, 82>>

\* RARC::read, lines 138-143: the byte order the magic string selects
MagicEndian(magic, nat) ==
    IF magic = RARCMagic THEN "big"
    ELSE IF magic = CRARMagic THEN "little"
    ELSE nat

\* Header, read at p
ReadHeaderAt(e, b, p) ==
    IF ~Fits(b, p, 28) THEN [ok |-> FALSE, val |-> DefaultHeader]
    ELSE [ok |-> TRUE,
          val |-> [filesize |-> ReadU32(e, b, p),
                   headersize |-> ReadU32(e, b, p + 4),
                   filedataoff |-> ReadU32(e, b, p + 8),
                   filedatasize |-> ReadU32(e, b, p + 12),
                   mramsize |-> ReadU32(e, b, p + 16),
                   aramsize |-> ReadU32(e, b, p + 20),
                   dvdsize |-> ReadU32(e, b, p + 24)]]

\* DataHeader, read at p
ReadDataHeaderAt(e, b, p) ==
    IF ~Fits(b, p, 24) THEN [ok |-> FALSE, val |-> DefaultDataHeader]
    ELSE [ok |-> TRUE,
          val |-> [dirnodecount |-> ReadU32(e, b, p),
                   dirnodeoff |-> ReadU32(e, b, p + 4),
                   filenodecount |-> ReadU32(e, b, p + 8),
                   filenodeoff |-> ReadU32(e, b, p + 12),
                   stringtablesize |-> ReadU32(e, b, p + 16),
                   stringtableoff |-> ReadU32(e, b, p + 20)]]

\* RARC::read, lines 136-147.  A read that fails leaves the cursor where it
\* was and yields the default value.
DecodeHeader(b, nat) ==
    LET e  == MagicEndian(ReadNTString(b, 0), nat)
        h  == ReadHeaderAt(e, b, 4)
        p1 == IF h.ok THEN 32 ELSE 4
        d  == ReadDataHeaderAt(e, b, p1)
        p2 == IF d.ok THEN p1 + 24 ELSE p1
        okn == Fits(b, p2, 2)
        p3 == IF okn THEN p2 + 2 ELSE p2
    IN  [endian |-> e, header |-> h.val, dataheader |-> d.val,
         nextidx |-> IF okn THEN ReadU16(e, b, p2) ELSE 0,
         sync |-> IF Fits(b, p3, 1) THEN ByteAt(b, p3) # 0 ELSE FALSE]

\* folder::Node, read at p
ReadFolderNodeAt(e, b, p) ==
    IF ~Fits(b, p, 16) THEN [ok |-> FALSE, val |-> DefaultFileNode]
    ELSE [ok |-> TRUE,
          val |-> [DefaultFileNode EXCEPT
                     !.shortname = [i \in 1..4 |-> ByteAt(b, p + i - 1)],
                     !.nameoff = ReadU32(e, b, p + 4),
                     !.hash = ReadU16(e, b, p + 8),
                     !.filecount = ReadU16(e, b, p + 10),
                     !.firstfileoff = ReadU32(e, b, p + 12)]]

\* RARC::read, lines 151-160: the folder loop from turn i on, the cursor
\* at p
RECURSIVE DecodeFolders(_, _, _, _, _, _, _)
DecodeFolders(e, b, h, d, n, i, st) ==
    IF i >= n \/ st.panic # "none" THEN st
    ELSE LET r   == ReadFolderNodeAt(e, b, st.pos)
             pos == Sum3(d.stringtableoff, h.headersize, r.val.nameoff)
             node == [r.val EXCEPT !.name = ReadNTString(b, ToPos(pos.val)),
                                   !.isroot = (i = 0)]
         IN  IF pos.ovf /\ overflowChecks
             THEN [st EXCEPT !.panic = "overflow"]
             ELSE DecodeFolders(e, b, h, d, n, i + 1,
                    [st EXCEPT !.nodes = Append(@, node),
                               !.pos = IF r.ok THEN st.pos + 16 ELSE st.pos])

\* dir::Node, read at p
ReadDirNodeAt(e, b, p) ==
    IF ~Fits(b, p, 16) THEN [ok |-> FALSE, val |-> DefaultDirNode]
    ELSE [ok |-> TRUE,
          val |-> [DefaultDirNode EXCEPT
                     !.nodeidx = ReadU16(e, b, p),
                     !.hash = ReadU16(e, b, p + 2),
                     !.attrandnameoff = ReadU32(e, b, p + 4),
                     !.data = ReadU32(e, b, p + 8),
                     !.datasize = ReadU32(e, b, p + 12)]]

\* RARC::read, line 166: (attrandnameoff & 0x00FFFFFF) as u16
UnpackNameOff(w) == w.lo

\* RARC::read, line 167: (attrandnameoff >> 24) as u8
UnpackAttr(w) == w.hi \div 256

\* RARC::read, lines 166-169: the unpacked fields and the name of an entry
Unpack(b, h, d, node) ==
    LET nameoff == UnpackNameOff(node.attrandnameoff)
        pos == Sum3(d.stringtableoff, h.headersize, W(nameoff))
    IN  [ovf |-> pos.ovf,
         namepos |-> ToPos(pos.val),
         val |-> [node EXCEPT !.nameoff = nameoff,
                              !.attr = UnpackAttr(node.attrandnameoff),
                              !.name = ReadNTString(b, ToPos(pos.val))]]

\* RARC::read, lines 170-176: the payload of a FILE entry; read_exact fails
\* on a buffer that ends before datasize bytes
Payload(b, h, node) ==
    LET pos == Sum3(h.filedataoff, h.headersize, node.data)
        p   == ToPos(pos.val)
        n   == ToPos(node.datasize)
    IN  IF pos.ovf /\ overflowChecks THEN [panic |-> "overflow", bytes |-> <<>>]
        ELSE IF p >= b.size \/ n > b.size - p
        THEN IF n = 0 THEN [panic |-> "none", bytes |-> <<>>]
             ELSE [panic |-> "read_exact", bytes |-> <<>>]
        ELSE [panic |-> "none", bytes |-> [k \in 1..n |-> ByteAt(b, p + k - 1)]]

\* RARC::read, lines 162-178: the entry loop from turn i on
RECURSIVE DecodeDirs(_, _, _, _, _, _, _)
DecodeDirs(e, b, h, d, n, i, st) ==
    IF i >= n \/ st.panic # "none" THEN st
    ELSE LET r == ReadDirNodeAt(e, b, st.pos)
             u == Unpack(b, h, d, r.val)
             f == IF Contains(u.val.attr, FILE) THEN Payload(b, h, u.val)
                  ELSE [panic |-> "none", bytes |-> <<>>]
         IN  IF u.ovf /\ overflowChecks
             THEN [st EXCEPT !.panic = "overflow"]
             ELSE IF f.panic # "none" THEN [st EXCEPT !.panic = f.panic]
             ELSE DecodeDirs(e, b, h, d, n, i + 1,
                    [st EXCEPT !.nodes = Append(@, [u.val EXCEPT
                                                      !.bytes = f.bytes]),
                               !.pos = (IF r.ok THEN st.pos + 16 ELSE st.pos)
                                       + 4])

---------------------------------------------------------------------------
(* Tree linker *)

\* sortparents, lines 193-200: the first loop from entry i (a position) on
RECURSIVE LinkFolders(_, _, _, _)
LinkFolders(fds, ds, gen, i) ==
    IF i >= Len(ds) THEN [folders |-> fds, dirs |-> ds, panic |-> "none"]
    ELSE LET dir == ds[i + 1]
         IN  IF Contains(dir.attr, FOLDER) /\ dir.data # U32MAX
             THEN IF dir.data.hi > 0 \/ dir.data.lo >= Len(fds)
                  THEN [folders |-> fds, dirs |-> ds, panic |-> "index"]
                  ELSE LET t == dir.data.lo
                       IN  LinkFolders(
                             IF dir.hash = fds[t + 1].hash
                             THEN [fds EXCEPT ![t + 1].dir = i] ELSE fds,
                             [ds EXCEPT ![i + 1].folder = Ptr(gen, t)],
                             gen, i + 1)
             ELSE LinkFolders(fds, ds, gen, i + 1)

\* sortparents, lines 201-207: the second loop over the folders at
\* positions f .. n - 1
RECURSIVE LinkRanges(_, _, _, _, _)
LinkRanges(fds, ds, gen, f, n) ==
    IF f >= n THEN [dirs |-> ds, panic |-> "none"]
    ELSE LET node == fds[f + 1]
             lo == node.firstfileoff.lo
             hi == lo + node.filecount
             top == IF hi < Len(ds) THEN hi ELSE Len(ds)
             set == [y \in 1..Len(ds) |->
                       IF y - 1 >= lo /\ y - 1 < top
                       THEN [ds[y] EXCEPT !.parent = Ptr(gen, f)] ELSE ds[y]]
         IN  IF RangeOverflows(node)
             THEN IF overflowChecks THEN [dirs |-> ds, panic |-> "overflow"]
                  ELSE LinkRanges(fds, ds, gen, f + 1, n)
             ELSE IF node.filecount = 0 THEN LinkRanges(fds, ds, gen, f + 1, n)
             ELSE IF node.firstfileoff.hi > 0
             THEN [dirs |-> ds, panic |-> "index"]
             ELSE IF hi > Len(ds) THEN [dirs |-> set, panic |-> "index"]
             ELSE LinkRanges(fds, set, gen, f + 1, n)

\* the second loop stopping one folder early
LinkParentsShort(fds, ds, gen) == LinkRanges(fds, ds, gen, 0, Len(fds) - 1)

\* sortparents, lines 201-207
LinkParents(fds, ds, gen) == LinkRanges(fds, ds, gen, 0, Len(fds))

\* RARC::sortparents
SortParents(fds, ds, gen) ==
    LET a == LinkFolders(fds, ds, gen, 0)
        b == LinkParents(a.folders, a.dirs, gen)
    IN  IF a.panic # "none" THEN a
        ELSE [folders |-> a.folders, dirs |-> b.dirs, panic |-> b.panic]

---------------------------------------------------------------------------
(* The decoder on a byte buffer *)

ReadVarsUnchanged ==
    UNCHANGED <<buf, native, overflowChecks, freed, attrArg, stack, fs,
                assigned, xFolder, children, gDirs, gFnode, gResult, written>>

\* RARC::read, lines 135-147
ReadHeader ==
    /\ pc = "raw"
    /\ LET r == DecodeHeader(buf, native)
       IN  /\ endian' = r.endian
           /\ header' = r.header
           /\ dataheader' = r.dataheader
           /\ nextidx' = r.nextidx
           /\ sync' = r.sync
    /\ pc' = "header"
    /\ UNCHANGED <<panic, folders, dirs, foldersCap, foldersGen>>
    /\ ReadVarsUnchanged

\* whether a count of the data header is one the model decodes
Decodable(w) == w.hi = 0 /\ w.lo <= MaxNodes

\* RARC::read, lines 148-160
ReadFolders ==
    /\ pc = "header"
    /\ Decodable(dataheader.dirnodecount)
    /\ Decodable(dataheader.filenodecount)
    /\ LET start == Add32(dataheader.dirnodeoff, header.headersize)
           st == DecodeFolders(endian, buf, header, dataheader,
                               dataheader.dirnodecount.lo, 0,
                               [nodes |-> <<>>, pos |-> ToPos(start.val),
                                panic |-> "none"])
       IN  IF start.ovf /\ overflowChecks
           THEN /\ pc' = "panic"
                /\ panic' = "overflow"
                /\ UNCHANGED <<folders, foldersCap>>
           ELSE /\ folders' = st.nodes
                /\ foldersCap' = dataheader.dirnodecount.lo
                /\ pc' = IF st.panic = "none" THEN "folders" ELSE "panic"
                /\ panic' = st.panic
    /\ UNCHANGED <<dirs, nextidx, sync, endian, header, dataheader,
                   foldersGen>>
    /\ ReadVarsUnchanged

\* RARC::read, lines 161-188
ReadDirs ==
    /\ pc = "folders"
    /\ LET start == Add32(dataheader.filenodeoff, header.headersize)
           st == DecodeDirs(endian, buf, header, dataheader,
                            dataheader.filenodecount.lo, 0,
                            [nodes |-> <<>>, pos |-> ToPos(start.val),
                             panic |-> "none"])
       IN  IF start.ovf /\ overflowChecks
           THEN /\ pc' = "panic"
                /\ panic' = "overflow"
                /\ UNCHANGED dirs
           ELSE /\ dirs' = st.nodes
                /\ pc' = IF st.panic = "none" THEN "decoded" ELSE "panic"
                /\ panic' = st.panic
    /\ UNCHANGED <<folders, nextidx, sync, endian, header, dataheader,
                   foldersCap, foldersGen>>
    /\ ReadVarsUnchanged

\* RARC::read, line 189: sortparents on the decoded tables
Link ==
    /\ pc = "decoded"
    /\ LET r == SortParents(folders, dirs, foldersGen)
       IN  /\ folders' = r.folders
           /\ dirs' = r.dirs
           /\ pc' = IF r.panic = "none" THEN "linked" ELSE "panic"
           /\ panic' = r.panic
    /\ UNCHANGED <<nextidx, sync, endian, header, dataheader, foldersCap,
                   foldersGen>>
    /\ ReadVarsUnchanged

\* the bytes of a u16 and of a u32 in a byte order
Enc16(e, n) ==
    IF e = "big" THEN <<n \div 256, n % 256>> ELSE <<n % 256, n \div 256>>

Enc32(e, w) ==
    IF e = "big" THEN Enc16(e, w.hi) \o Enc16(e, w.lo)
    ELSE Enc16(e, w.lo) \o Enc16(e, w.hi)

RECURSIVE Enc32s(_, _)
Enc32s(e, ws) ==
    IF ws = <<>> THEN <<>> ELSE Enc32(e, ws[1]) \o Enc32s(e, Tail(ws))

Place(off, s) == [o \in off..(off + Len(s) - 1) |-> s[o - off + 1]]

\* the 20 bytes of an entry of the entry table: dir::Node and 4 of padding
EncEntry(e, x) ==
    Enc16(e, 0) \o Enc16(e, 0)
    \o Enc32(e, [hi |-> x.attr * 256 + x.nameoff.hi, lo |-> x.nameoff.lo])
    \o Enc32(e, x.data) \o Enc32(e, x.datasize) \o <<0, 0, 0, 0>>

RECURSIVE EncEntries(_, _)
EncEntries(e, xs) ==
    IF xs = <<>> THEN <<>> ELSE EncEntry(e, xs[1]) \o EncEntries(e, Tail(xs))

\* the entries the buffers of the model hold: FILE, FOLDER, both bits, and
\* FILE | COMPRESSED | USESZS, the name at offset 5 or 65541 of the string
\* table
EntryInputs ==
    {[attr |-> a, nameoff |-> o, data |-> W(0),
      datasize |-> IF Contains(a, FILE) THEN W(1) ELSE W(0)] :
       a \in {FILE, FOLDER, FILE + FOLDER, 133},
       o \in {W(5), W(U16MOD + 5)}}

EntryLists == UNION {[1..n -> EntryInputs] : n \in 1..MaxEntries}

BigName == U16MOD + 5

\* An archive of one folder and the entries xs, its fields written in byte
\* order e behind the magic m: the header (32 bytes), the data header, the
\* folder table at 64, the entry table at 80, then the string table (the
\* names "r" at 0, "a" at 5 and "b" at 65541) and one byte of file data.
\* cut is the length the buffer is truncated to (0: not truncated).
MkBuf(m, e, filesize, xs, idx, sy, cut) ==
    LET n      == Len(xs)
        stroff == 48 + 20 * n
        stsize == BigName + 2
        dataoff == stroff + stsize
        total  == 32 + dataoff + 1
        hdr == Enc32s(e, <<filesize, W(32), W(dataoff), W(1), W(0), W(0),
                           W(0)>>)
        dh  == Enc32s(e, <<W(1), W(32), W(n), W(48), W(stsize), W(stroff)>>)
               \o Enc16(e, idx) \o <<sy>>
        fld == <<82, 79, 79, 84>> \o Enc32(e, W(0)) \o Enc16(e, 0)
               \o Enc16(e, n) \o Enc32(e, W(0))
        all == Place(0, m) @@ Place(4, hdr) @@ Place(32, dh) @@ Place(64, fld)
               @@ Place(80, EncEntries(e, xs))
               @@ Place(32 + stroff, <<114>>) @@ Place(32 + stroff + 5, <<97>>)
               @@ Place(32 + stroff + BigName, <<98>>)
               @@ Place(32 + dataoff, <<127>>)
    IN  IF cut = 0 THEN [size |-> total, bytes |-> all]
        ELSE [size |-> cut, bytes |-> [o \in {q \in DOMAIN all : q < cut} |->
                                         all[o]]]

Magics == {RARCMagic, CRARMagic, <<82, 65, 82, 88>>}

\* the file sizes the headers of the model declare: below and above 2^24
FileSizes == {W(160), W(16777376)}

InitRead ==
    /\ pc = "raw"
    /\ panic = "none"
    /\ folders = <<>>
    /\ dirs = <<>>
    /\ nextidx = 0
    /\ sync = FALSE
    /\ native \in {"big", "little"}
    /\ endian = native
    /\ header = DefaultHeader
    /\ dataheader = DefaultDataHeader
    /\ \E m \in Magics, e \in {"big", "little"}, sz \in FileSizes,
          xs \in EntryLists, cut \in {0, 40} :
         buf = MkBuf(m, e, sz, xs, U16MOD - 1, 1, cut)
    /\ overflowChecks \in BOOLEAN
    /\ foldersCap = 0
    /\ foldersGen = 0
    /\ freed = <<>>
    /\ attrArg = 0
    /\ stack = <<>>
    /\ fs = <<>>
    /\ assigned = <<>>
    /\ xFolder = 0
    /\ children = <<>>
    /\ gDirs = <<>>
    /\ gFnode = 0
    /\ gResult = <<>>
    /\ written = {}

NextRead ==
    \/ ReadHeader
    \/ ReadFolders
    \/ ReadDirs
    \/ Link

SpecRead == InitRead /\ [][NextRead]_vars

---------------------------------------------------------------------------
(* The tree linker on decoded tables *)

\* the folder records of the tables: any range that starts inside or at the
\* end of the largest entry table
LinkFolderInputs ==
    {[DefaultFileNode EXCEPT !.hash = 1, !.firstfileoff = W(o),
                             !.filecount = c] :
       o \in 0..MaxLinkDirs, c \in 0..2}

\* a decoded entry record with the packed field w
Decoded(w, data, hash) ==
    [DefaultDirNode EXCEPT !.attrandnameoff = w, !.attr = UnpackAttr(w),
                           !.nameoff = UnpackNameOff(w), !.data = data,
                           !.hash = hash]

\* the entry records of the tables: a FILE entry, and FOLDER entries that
\* refer to folder 0, to folder 1 or to no folder, with the hash of the
\* folders or another
LinkDirInputs ==
    {Decoded(W(FILE * 256 * U16MOD), W(0), 0)}
    \cup {Decoded(W(FOLDER * 256 * U16MOD), x[1], x[2]) :
            x \in {<<W(0), 1>>, <<W(0), 2>>, <<W(1), 1>>, <<U32MAX, 1>>}}

InitLink ==
    /\ pc = "decoded"
    /\ panic = "none"
    /\ \E n \in 1..MaxLinkFolders :
         /\ \E t \in [1..n -> LinkFolderInputs] :
              folders = [i \in 1..n |-> [t[i] EXCEPT !.isroot = (i = 1)]]
         /\ foldersCap = n
    /\ dirs \in UNION {[1..n -> LinkDirInputs] : n \in 0..MaxLinkDirs}
    /\ nextidx = 0
    /\ sync = FALSE
    /\ native = "little"
    /\ endian = native
    /\ header = DefaultHeader
    /\ dataheader = [DefaultDataHeader EXCEPT
                       !.dirnodecount = W(Len(folders)),
                       !.filenodecount = W(Len(dirs))]
    /\ buf = EmptyBuf
    /\ overflowChecks = TRUE
    /\ foldersGen = 0
    /\ freed = <<>>
    /\ attrArg = 0
    /\ stack = <<>>
    /\ fs = <<>>
    /\ assigned = <<>>
    /\ xFolder = 0
    /\ children = <<>>
    /\ gDirs = <<>>
    /\ gFnode = 0
    /\ gResult = <<>>
    /\ written = {}

SpecLink == InitLink /\ [][Link]_vars

---------------------------------------------------------------------------
(* Claims about the decoder and the tree linker *)

\* whether position i of the entry table lies in the child range of folder
Covers(folder, i) ==
    /\ folder.firstfileoff.hi = 0
    /\ folder.firstfileoff.lo <= i
    /\ i < folder.firstfileoff.lo + folder.filecount

\* the positions of the folders whose child range holds position i
Owners(i) == {f \in 0..(Len(folders) - 1) : Covers(folders[f + 1], i)}

Max(S) == CHOOSE x \in S : \A y \in S : y <= x

\* C4 as claimed: after sortparents, the parent link of every entry in the
\* child range of a folder F refers to F.
C4_ParentIsOwner ==
    pc = "linked" =>
      \A i \in 0..(Len(dirs) - 1) :
        \A f \in Owners(i) : dirs[i + 1].parent = Ptr(foldersGen, f)

\* C4, amended: after sortparents, the parent link of every entry that lies
\* in some folder's child range refers to the last folder of the table whose
\* range holds it.
C4_ParentIsLastOwner ==
    pc = "linked" =>
      \A i \in 0..(Len(dirs) - 1) :
        Owners(i) # {} => dirs[i + 1].parent = Ptr(foldersGen, Max(Owners(i)))

\* two folders' ranges hold the same entry, and sortparents has run
C4_OverlapLinked ==
    /\ pc = "linked"
    /\ \E i \in 0..(Len(dirs) - 1) :
         /\ Cardinality(Owners(i)) >= 2
         /\ dirs[i + 1].parent = Ptr(foldersGen, Max(Owners(i)))

\* whether the buffer starts with the 4 bytes m
Begins(b, m) == b.size >= 4 /\ \A i \in 1..4 : ByteAt(b, i - 1) = m[i]

\* C6: read takes the byte order from the 4 bytes at offset 0 alone: a
\* buffer that begins with "CRAR" is decoded little-endian and one that
\* begins with "RARC" big-endian, whatever follows the magic.
C6_MagicSelectsOrder ==
    pc # "raw" =>
      /\ Begins(buf, CRARMagic) =>
           endian = "little" /\ header = ReadHeaderAt("little", buf, 4).val
      /\ Begins(buf, RARCMagic) =>
           endian = "big" /\ header = ReadHeaderAt("big", buf, 4).val

\* C7: no entry of the entry table has both the FILE and the FOLDER bit.
C7_NoFileAndFolder ==
    \A i \in 1..Len(dirs) :
      ~(Contains(dirs[i].attr, FILE) /\ Contains(dirs[i].attr, FOLDER))

\* the low 24 bits of a u32
Low24(w) == (w.hi % 256) * U16MOD + w.lo

\* C9: for every decoded entry, nameoff is the low 24 bits of
\* attrandnameoff, attr its high 8 bits, and the name is the string at
\* stringtableoff + headersize + that 24-bit offset.
C9_UnpackFields ==
    pc \in {"decoded", "linked"} =>
      \A i \in 1..Len(dirs) :
        LET w == dirs[i].attrandnameoff
        IN  /\ dirs[i].nameoff = Low24(w)
            /\ dirs[i].attr = w.hi \div 256
            /\ dirs[i].name =
                 ReadNTString(buf, ToPos(Sum3(dataheader.stringtableoff,
                                              header.headersize,
                                              W(Low24(w))).val))

---------------------------------------------------------------------------
(* Claims about the importer and the path resolver, under SpecImport *)

\* the pointer was taken to the folder at position i
RefersTo(p, i) == p # NoPtr /\ p.idx = i

\* the names of the folders from the import root down to the folder named
\* by path
Chain(path) == [k \in 1..(Len(path) + 1) |-> SubSeq(path, 1, k - 1)]

Names(tree) == [i \in 1..Len(tree) |-> tree[i].name]

\* C1: after importfromfolder on an empty archive, getroot(getchildren(F))
\* is the chain of folders from the archive root to F, root first, for
\* every folder F of the import (so [root, sub] for sub of root/sub/b.txt).
C1_PathIsChain ==
    pc = "walked" => Names(Tree) = Chain(folders[xFolder + 1].name)

\* C2: after importfromfolder, the last two entries of every folder's child
\* range are an entry "." whose linked folder is that folder and an entry
\* "..", in this order.
C2_TrailingPair ==
    pc = "imported" =>
      \A i \in 0..(Len(folders) - 1) :
        LET F  == folders[i + 1]
            hi == F.firstfileoff.lo + F.filecount
        IN  /\ F.filecount >= 2
            /\ hi <= Len(dirs)
            /\ dirs[hi - 1].name = Dot
            /\ RefersTo(dirs[hi - 1].folder, i)
            /\ dirs[hi].name = DotDot

\* the synthetic entries named nm that were appended for folder i
Synthetic(nm, i) ==
    {d \in 1..Len(dirs) : dirs[d].name = nm /\ RefersTo(dirs[d].folder, i)}

\* C3: every folder imported with no file and no sub-directory has
\* filecount 2 and got exactly two synthetic entries, one "." and one "..".
C3_EmptyFolderPair ==
    pc = "imported" =>
      \A i \in 0..(Len(folders) - 1) :
        fs[folders[i + 1].name] = <<>> =>
          /\ folders[i + 1].filecount = 2
          /\ Cardinality(Synthetic(Dot, i)) = 1
          /\ Cardinality(Synthetic(DotDot, i)) = 1

\* C5: under sync the nodeidx values that successive createfile calls assign
\* are strictly increasing (hence pairwise distinct), whatever nextidx
\* started at.
C5_NodeIdxIncreasing ==
    \A i, j \in 1..Len(assigned) : i < j => assigned[i] < assigned[j]

\* C8: every recursive importnote call is made on the path of the
\* sub-directory whose FolderRecord it is given as parent, and the listing
\* is never indexed out of range.
C8_RecursesIntoOwnFolder ==
    /\ panic # "index"
    /\ \A k \in 1..Len(stack) :
         stack[k].name = folders[stack[k].parent.idx + 1].name

\* C10: getroot terminates on every folder of an imported tree: its walk
\* never comes back to a folder it has already visited (the walk from a
\* folder is a function of that folder, so coming back is walking for ever).
C10_GetrootTerminates ==
    \A i, j \in 1..Len(gResult) :
      i < j => gResult[i].name # gResult[j].name

===========================================================================
